---- MODULE Spec2Model ----
(***************************************************************************)
(* The buffering proxy of serverside/secondary_api.py: the request queue   *)
(* and the response cache (two SQLite tables), the cached liveness verdict *)
(* of the primary API, the proxy dispatcher, the queue drain and the       *)
(* background sync worker.  One request-handler thread and the worker      *)
(* thread; a call of check_primary_alive that probes, the rest of          *)
(* proxy_request, and each iteration of the loops of sync_requests and     *)
(* refresh_cache are steps, and the threads interleave between them.       *)
(***************************************************************************)
EXTENDS Integers, Sequences, FiniteSets, TLC

VARIABLES
    now,                   \* wall clock in whole seconds (time.time(), CURRENT_TIMESTAMP)
    primary,               \* the primary API: "down", "ok" (answers < 400), "reject" (answers >= 400)
    primary_status_cache,  \* the module-level dict _primary_status_cache
    request_queue,         \* rows of table request_queue
    sqlite_sequence,       \* AUTOINCREMENT counter of request_queue (largest id ever given)
    data_cache,            \* rows of table data_cache
    th,                    \* per thread: position in its handler and its local variables
    store,                 \* the SQLite file: "ok", or "locked" (statements raise OperationalError)
    received,              \* ids of the queue entries whose forward the primary accepted
    health,                \* the status code the upstream answers GET /status with while it is up
    last_event             \* the status change that check_primary_alive printed last

vars == <<now, primary, primary_status_cache, request_queue, sqlite_sequence,
          data_cache, th, store, received, health, last_event>>

----------------------------------------------------------------------------
(* Program constants *)

SYNC_INTERVAL == 5
CACHE_TTL == 3
CACHE_EXPIRY == 3600

(* Bounds of the model *)

MaxQueue == 2        \* entries ever enqueued
MaxSleeps == 1       \* steps of the clock by SYNC_INTERVAL within an hour
MaxHours == 1        \* steps of the clock by CACHE_EXPIRY
MaxSeconds == 4      \* steps of the clock by one second
StartTime == 10      \* time.time() when the process starts

Handlers == {"h1"}
Worker == "w"
Threads == Handlers \cup {Worker}

----------------------------------------------------------------------------
(* Python values.  None / a value: a record with the same fields either    *)
(* way.  A JSON object is the set of its <<key, value text>> pairs, so {}  *)
(* is the empty set.                                                       *)

None == [some |-> FALSE, val |-> {}]
Some(v) == [some |-> TRUE, val |-> v]

JsonEmpty == {}
BodyNoLimits == {<<"status", "success">>, <<"data", "{}">>}
BodyLimits == {<<"status", "success">>, <<"data", "{chrome.exe: 3600}">>}
BodyInfo == {<<"status", "success">>, <<"data", "{apps_monitored: 1}">>}
BodyWritten == {<<"status", "success">>, <<"message", "updated">>}
BodyConflict == {<<"status", "error">>, <<"message", "already exists">>}
BodyUnsupported == {<<"status", "error">>, <<"message", "Unsupported method">>}
ReqLimits == {<<"limits", "{Monday: 3600}">>}

JsonDocs == {JsonEmpty, BodyNoLimits, BodyLimits, BodyInfo, BodyWritten,
             BodyConflict, BodyUnsupported, ReqLimits}

\* json.dumps: the text of a document
json_dumps(doc) ==
    CASE doc = JsonEmpty -> "{}"
      [] doc = BodyNoLimits -> "{status: success, data: {}}"
      [] doc = BodyLimits -> "{status: success, data: {chrome.exe: 3600}}"
      [] doc = BodyInfo -> "{status: success, data: {apps_monitored: 1}}"
      [] doc = BodyWritten -> "{status: success, message: updated}"
      [] doc = BodyConflict -> "{status: error, message: already exists}"
      [] doc = BodyUnsupported -> "{status: error, message: Unsupported method}"
      [] doc = ReqLimits -> "{limits: {Monday: 3600}}"

\* json.loads: the document a text parses to
json_loads(text) == CHOOSE doc \in JsonDocs : json_dumps(doc) = text

\* a bool(x) that holds of every value
TruthyAny(opt) == TRUE

\* bool(x) of an optional dict: None and {} are falsy
Truthy(opt) == opt.some /\ opt.val /= {}

\* dict.get(key, default), values as their text
DictGet(doc, key, default) ==
    IF \E p \in doc : p[1] = key
    THEN (CHOOSE p \in doc : p[1] = key)[2]
    ELSE default

BoolStr(b) == IF b THEN "True" ELSE "False"

----------------------------------------------------------------------------
(* The routes of the proxy and the requests they pass to proxy_request *)

Routes ==
    { [method |-> "GET", endpoint |-> "/limits", data |-> None, return_queued |-> FALSE],
      [method |-> "POST", endpoint |-> "/limits", data |-> Some(ReqLimits), return_queued |-> TRUE],
      [method |-> "PUT", endpoint |-> "/limits/foo", data |-> Some(ReqLimits), return_queued |-> TRUE],
      [method |-> "DELETE", endpoint |-> "/limits/foo", data |-> None, return_queued |-> TRUE] }

\* endpoints_to_cache of refresh_cache
endpoints_to_cache ==
    <<"/limits", "/exceptions/2026-01-17", "/usage/2026-01-17", "/config", "/status">>

----------------------------------------------------------------------------
(* DATABASE: table request_queue *)

NULL == "NULL"

\* an add_to_queue on a table without AUTOINCREMENT: the id after the largest id in the table
add_to_queue_rowid(method, endpoint, data) ==
    LET ids == {r.id : r \in request_queue}
        largest == IF ids = {} THEN 0 ELSE CHOOSE i \in ids : \A j \in ids : j <= i
    IN  IF store = "ok"
        THEN request_queue \cup
                { [id |-> largest + 1, method |-> method, endpoint |-> endpoint,
                   data |-> data, created_at |-> now, retry_count |-> 0, status |-> "pending",
                   down |-> (primary = "down"), seq |-> sqlite_sequence + 1] }
        ELSE request_queue

\* an add_to_queue on a table whose purge restarts the ids: an empty table gives id 1
add_to_queue_restart(method, endpoint, data) ==
    IF store = "ok"
    THEN request_queue \cup
            { [id |-> IF request_queue = {} THEN 1 ELSE sqlite_sequence + 1,
               method |-> method, endpoint |-> endpoint,
               data |-> data, created_at |-> now, retry_count |-> 0, status |-> "pending",
               down |-> (primary = "down"), seq |-> sqlite_sequence + 1] }
    ELSE request_queue

\* an add_to_queue whose INSERT does not reach the table
add_to_queue_lost(method, endpoint, data) == request_queue

\* add_to_queue: INSERT with the next AUTOINCREMENT id, created_at = CURRENT_TIMESTAMP,
\* retry_count = 0.  The history field down, no column of the table: the primary is
\* down as the row is inserted.  The history field seq, no column either: the number
\* of this INSERT among the INSERTs into the table since it was created.
add_to_queue(method, endpoint, data) ==
    IF store = "ok"
    THEN request_queue \cup
            { [id |-> sqlite_sequence + 1, method |-> method, endpoint |-> endpoint,
               data |-> data, created_at |-> now, retry_count |-> 0, status |-> "pending",
               down |-> (primary = "down"), seq |-> sqlite_sequence + 1] }
    ELSE request_queue  \* except sqlite3.OperationalError: print

\* the AUTOINCREMENT counter after add_to_queue
sequence_after_insert == IF store = "ok" THEN sqlite_sequence + 1 ELSE sqlite_sequence

PendingRows == {r \in request_queue : r.status = "pending"}

QueueItem(r) == [id |-> r.id, method |-> r.method, endpoint |-> r.endpoint, data |-> r.data]

\* The orders ORDER BY created_at allows: rows with equal created_at come in any order
OrderedByCreatedAt(rows) ==
    { s \in [1..Cardinality(rows) -> rows] :
        /\ \A i, j \in 1..Cardinality(rows) : i /= j => s[i] /= s[j]
        /\ \A i, j \in 1..Cardinality(rows) : i < j => s[i].created_at <= s[j].created_at }

\* get_queue: the lists SELECT ... WHERE status = 'pending' ORDER BY created_at can return
get_queue ==
    IF store = "ok"
    THEN { [i \in 1..Len(s) |-> QueueItem(s[i])] : s \in OrderedByCreatedAt(PendingRows) }
    ELSE { <<>> }  \* except sqlite3.OperationalError: return []

\* a mark_queued_request_done whose UPDATE has no WHERE: every row is marked
mark_done_all(request_id) == { [r EXCEPT !.status = "synced"] : r \in request_queue }

\* a mark_queued_request_done that deletes the row it has delivered
mark_done_deletes(request_id) == { r \in request_queue : r.id /= request_id }

\* a mark_queued_request_done whose UPDATE matches no row
mark_done_skipped(request_id) == request_queue

\* mark_queued_request_done: UPDATE ... SET status = 'synced' WHERE id = ?
mark_queued_request_done(request_id) ==
    IF store = "ok"
    THEN { IF r.id = request_id THEN [r EXCEPT !.status = "synced"] ELSE r :
            r \in request_queue }
    ELSE request_queue

\* a mark_queued_request_failed that sets the count instead of adding to it
mark_failed_sets_one(request_id) ==
    IF store = "ok"
    THEN { IF r.id = request_id
           THEN [r EXCEPT !.retry_count = 1, !.status = "failed"]
           ELSE r : r \in request_queue }
    ELSE request_queue

\* a mark_queued_request_failed that does not count the attempt
mark_failed_no_retry(request_id) ==
    { IF r.id = request_id THEN [r EXCEPT !.status = "failed"] ELSE r : r \in request_queue }

\* mark_queued_request_failed: UPDATE ... SET retry_count = retry_count + 1, status = 'failed'
mark_queued_request_failed(request_id) ==
    IF store = "ok"
    THEN { IF r.id = request_id
           THEN [r EXCEPT !.retry_count = r.retry_count + 1, !.status = "failed"]
           ELSE r : r \in request_queue }
    ELSE request_queue

\* a get_queue_stats that counts the pending entries only
stats_pending_only ==
    IF PendingRows /= {} THEN { <<"pending", Cardinality(PendingRows)>> } ELSE {}

\* get_queue_stats: SELECT status, COUNT(*) ... GROUP BY status
get_queue_stats ==
    IF store = "ok"
    THEN { <<s, Cardinality({r \in request_queue : r.status = s})>> :
            s \in {r.status : r \in request_queue} }
    ELSE {}

(* DATABASE: table data_cache *)

\* a cache_endpoint_data with a plain INSERT: the row of the endpoint is kept
cache_appending(endpoint, doc) ==
    data_cache \cup
        { [endpoint |-> endpoint, data |-> json_dumps(doc), cached_at |-> now,
           expires_at |-> now + CACHE_EXPIRY] }

\* a cache_endpoint_data that stores nothing
cache_nothing(endpoint, doc) == data_cache

\* cache_endpoint_data: INSERT OR REPLACE on the primary key endpoint, expiry in one hour
cache_endpoint_data(endpoint, doc) ==
    IF store = "ok"
    THEN {r \in data_cache : r.endpoint /= endpoint} \cup
            { [endpoint |-> endpoint, data |-> json_dumps(doc), cached_at |-> now,
               expires_at |-> now + CACHE_EXPIRY] }
    ELSE data_cache

\* a get_cached_endpoint_data without the WHERE on expires_at
get_cached_ignoring_expiry(endpoint) ==
    IF \E r \in data_cache : r.endpoint = endpoint
    THEN Some(json_loads((CHOOSE r \in data_cache : r.endpoint = endpoint).data))
    ELSE None

\* get_cached_endpoint_data: the row of the endpoint WHERE expires_at > CURRENT_TIMESTAMP
get_cached_endpoint_data(endpoint) ==
    IF store = "ok" /\ \E r \in data_cache : r.endpoint = endpoint /\ r.expires_at > now
    THEN Some(json_loads(
            (CHOOSE r \in data_cache : r.endpoint = endpoint /\ r.expires_at > now).data))
    ELSE None

----------------------------------------------------------------------------
(* PRIMARY API COMMUNICATION *)

\* check_primary_alive, the test on the cached verdict
CacheValid == now - primary_status_cache.last_check < CACHE_TTL

\* the status codes an upstream answers GET /status with: the primary's 200, a 2xx
\* that is not 200, and an error of a gateway in front of it
HealthCodes == {200, 204, 503}

\* the probe GET /status: the status code, 0 for a transport failure
ProbeStatus == IF primary = "down" THEN 0 ELSE health

\* check_primary_alive, is_alive of one probe
ProbeIsAlive == ProbeStatus = 200

\* an update of the cache that is skipped when the probe failed
UpdateOnlyWhenAlive(current_time, is_alive) ==
    IF is_alive
    THEN [primary_status_cache EXCEPT !.last_check = current_time, !.is_alive = TRUE]
    ELSE primary_status_cache

\* check_primary_alive, the update of the cache after a probe that started at current_time
UpdateStatusCache(current_time, is_alive) ==
    [primary_status_cache EXCEPT !.last_check = current_time, !.is_alive = is_alive]

\* check_primary_alive, the test of the status change: is_alive != last_status
StatusChanged(is_alive) == BoolStr(is_alive) /= primary_status_cache.last_status

NoForward == [success |-> FALSE, response |-> None, kind |-> "none", status |-> 0]

\* what the primary answers a GET of an endpoint with when it is up
GetBodies(endpoint) ==
    IF endpoint = "/limits" THEN {JsonEmpty, BodyNoLimits, BodyLimits} ELSE {BodyInfo}

\* the body of an error page that is not JSON
HtmlText == "<!doctype html>"

\* what requests.get / post / put / delete does now: it raises exc, or returns a
\* response with status_code and text
HttpOutcomes(method, endpoint) ==
    CASE primary = "down" ->
            { [exc |-> e, status_code |-> 0, text |-> ""] : e \in {"Timeout", "ConnectionError"} }
      [] primary = "reject" ->
            { [exc |-> "none", status_code |-> IF method = "POST" THEN 409 ELSE 404,
               text |-> json_dumps(BodyConflict)],
              [exc |-> "none", status_code |-> 502, text |-> ""],
              [exc |-> "none", status_code |-> 400, text |-> HtmlText] }
      [] primary = "ok" ->
            { [exc |-> "none", status_code |-> IF method = "POST" THEN 201 ELSE 200,
               text |-> json_dumps(b)] :
              b \in IF method = "GET" THEN GetBodies(endpoint) ELSE {BodyWritten} }

\* response.json() does not raise
IsJson(text) == \E doc \in JsonDocs : json_dumps(doc) = text

\* forward_to_primary from the outcome o of its request on: the pair (success,
\* response) it returns.  The fields kind and status are history, not returned.
Classify(o) ==
    IF o.exc /= "none"
    THEN \* except Timeout / ConnectionError
         [success |-> FALSE, response |-> None, kind |-> "transport", status |-> 0]
    ELSE IF o.status_code >= 400
    THEN IF o.text = ""
         THEN [success |-> FALSE, response |-> None, kind |-> "rejected_empty",
               status |-> o.status_code]
         ELSE IF IsJson(o.text)
         THEN [success |-> FALSE, response |-> Some(json_loads(o.text)), kind |-> "rejected",
               status |-> o.status_code]
         ELSE \* response.json() raises: except Exception
              [success |-> FALSE, response |-> None, kind |-> "rejected_unparsed",
               status |-> o.status_code]
    ELSE IF IsJson(o.text)
    THEN [success |-> TRUE, response |-> Some(json_loads(o.text)), kind |-> "ok",
          status |-> o.status_code]
    ELSE [success |-> FALSE, response |-> None, kind |-> "unparsed", status |-> o.status_code]

\* forward_to_primary: the results (success, response) the call can have now
forward_to_primary(method, endpoint, data) ==
    IF method \notin {"GET", "POST", "PUT", "DELETE"}
    THEN { [success |-> FALSE, response |-> Some(BodyUnsupported),
            kind |-> "unsupported", status |-> 0] }
    ELSE { Classify(o) : o \in HttpOutcomes(method, endpoint) }

----------------------------------------------------------------------------
(* Threads *)

IdleLocals ==
    [pc |-> "idle", op |-> "none", method |-> "", endpoint |-> "", data |-> None,
     return_queued |-> FALSE, current_time |-> 0, alive |-> FALSE, items |-> <<>>,
     synced |-> 0, failed |-> 0, idx |-> 0, wake_at |-> 0, fwd |-> NoForward,
     code |-> 0, body |-> {}, cycle |-> {}]

\* a handler that calls forward_to_primary again when the forward could not be sent
RespondOrRetry(l, code, body) ==
    IF l.fwd.kind = "transport"
    THEN [l EXCEPT !.pc = "dispatch"]
    ELSE [l EXCEPT !.pc = "done", !.code = code, !.body = body]

\* return jsonify(body), code
Respond(l, code, body) == [l EXCEPT !.pc = "done", !.code = code, !.body = body]

\* background_sync_worker: time.sleep(SYNC_INTERVAL)
Sleep == [IdleLocals EXCEPT !.pc = "sleep", !.op = "worker", !.wake_at = now + SYNC_INTERVAL]

QueuedBody == {<<"status", "queued">>, <<"primary_status", "offline">>}
CachedBody(data) == {<<"status", "success">>, <<"data", data>>, <<"cached", "true">>}
NoCacheBody == {<<"status", "error">>, <<"data", "{}">>}
UnavailableBody == {<<"status", "error">>, <<"message", "Primary API unavailable">>}
SuccessBody == {<<"status", "success">>}
InternalErrorBody == {<<"status", "error">>, <<"message", "Internal server error">>}

\* a proxy_request that forwards whatever the verdict is
ForwardAlways(alive, method, endpoint, data) == forward_to_primary(method, endpoint, data)

\* proxy_request: forward_to_primary is called under an alive verdict only
ForwardIfAlive(alive, method, endpoint, data) ==
    IF alive THEN forward_to_primary(method, endpoint, data) ELSE {NoForward}

\* a proxy_request that caches every successful response
ShouldCacheAnyMethod(method) == TRUE

\* proxy_request: the test that caches a successful response
ShouldCache(method) == method = "GET"

\* a proxy_request that queues whatever failed
ShouldQueueAnyMethod(method, return_queued) == TRUE

\* proxy_request: the test that queues a failed request
ShouldQueue(method, return_queued) == method /= "GET" /\ return_queued

\* where a thread goes on when check_primary_alive returned is_alive to it
AfterCheck(l, is_alive) ==
    CASE l.op = "proxy" -> [l EXCEPT !.pc = "dispatch", !.alive = is_alive, !.current_time = 0]
      [] l.op = "worker" ->
            IF is_alive
            THEN [IdleLocals EXCEPT !.pc = "sync_list", !.op = "worker", !.cycle = l.cycle]
            ELSE Sleep
      [] l.op = "refresh" ->
            IF is_alive
            THEN [IdleLocals EXCEPT !.pc = "refresh", !.op = "refresh", !.idx = 1,
                                    !.cycle = l.cycle]
            ELSE Sleep

\* a thread calls check_primary_alive: the cached verdict if it is still valid, or else
\* requests.get(.../status) is sent and the thread waits for the answer
CallCheck(l) ==
    IF CacheValid
    THEN AfterCheck(l, primary_status_cache.is_alive)
    ELSE [l EXCEPT !.pc = "probe", !.current_time = now]

\* where a thread goes on when sync_requests returned (synced, failed) to it:
\* manual_sync answers, the worker calls refresh_cache
AfterSync(l) ==
    IF l.op = "manual"
    THEN Respond(l, 200, SuccessBody)
    ELSE CallCheck([IdleLocals EXCEPT !.op = "refresh", !.cycle = l.cycle])

----------------------------------------------------------------------------
(* Initial state: empty tables (init_db), the liveness record as written in *)
(* the module, the worker thread in its first sleep.                        *)

Init ==
    /\ now = StartTime
    /\ primary \in {"ok", "down"}
    /\ primary_status_cache = [last_check |-> 0, is_alive |-> FALSE, last_status |-> "None"]
    /\ request_queue = {}
    /\ sqlite_sequence = 0
    /\ data_cache = {}
    /\ th = [t \in Threads |-> IF t = Worker THEN Sleep ELSE IdleLocals]
    /\ store = "ok"
    /\ received = {}
    /\ health = 200
    /\ last_event = "none"

----------------------------------------------------------------------------
(* The environment: the clock and the primary API *)

Tick(d) ==
    /\ \/ d = 1 /\ now - StartTime < MaxSeconds
       \/ d = SYNC_INTERVAL /\ ((now - StartTime) % CACHE_EXPIRY) \div SYNC_INTERVAL < MaxSleeps
       \/ d = CACHE_EXPIRY /\ (now - StartTime) \div CACHE_EXPIRY < MaxHours
    /\ now' = now + d
    /\ UNCHANGED <<store, health, last_event, primary, primary_status_cache, request_queue,
                   sqlite_sequence, data_cache, th, received>>

PrimaryChange(p) ==
    /\ p /= primary
    /\ primary' = p
    /\ th' = [th EXCEPT ![Worker].cycle = {}]
    /\ UNCHANGED <<store, health, last_event, now, primary_status_cache, request_queue,
                   sqlite_sequence, data_cache, received>>

\* the SQLite file becomes locked, or is released
StoreChange(v) ==
    /\ v /= store
    /\ store' = v
    /\ UNCHANGED <<health, last_event, now, primary, primary_status_cache, request_queue,
                   sqlite_sequence, data_cache, th, received>>

\* the upstream begins to answer GET /status with another status code
HealthChange(c) ==
    /\ c /= health
    /\ health' = c
    /\ UNCHANGED <<store, last_event, now, primary, primary_status_cache, request_queue,
                   sqlite_sequence, data_cache, th, received>>

----------------------------------------------------------------------------
(* check_primary_alive: the probe is answered or times out, the cache is    *)
(* updated with the time the call began at                                  *)

ProbeEnd(t) ==
    /\ th[t].pc = "probe"
    /\ primary_status_cache' = UpdateStatusCache(th[t].current_time, ProbeIsAlive)
    /\ th' = [th EXCEPT ![t] =
                IF StatusChanged(ProbeIsAlive)
                THEN [th[t] EXCEPT !.pc = "report", !.alive = ProbeIsAlive]
                ELSE AfterCheck(th[t], ProbeIsAlive)]
    /\ UNCHANGED <<store, health, last_event, now, primary, request_queue, sqlite_sequence,
                   data_cache, received>>

\* check_primary_alive found the status changed: it prints the change, sets
\* last_status and returns
ReportStatus(t) ==
    /\ th[t].pc = "report"
    /\ last_event' = IF th[t].alive THEN "ONLINE" ELSE "OFFLINE"
    /\ primary_status_cache' =
            [primary_status_cache EXCEPT !.last_status = BoolStr(th[t].alive)]
    /\ th' = [th EXCEPT ![t] = AfterCheck(th[t], th[t].alive)]
    /\ UNCHANGED <<store, health, now, primary, request_queue, sqlite_sequence, data_cache,
                   received>>

----------------------------------------------------------------------------
(* proxy_request *)

\* a route calls proxy_request(method, endpoint, data, return_queued), which begins
\* with check_primary_alive
ProxyRequest(h, route) ==
    /\ th[h].pc = "idle"
    /\ route.method /= "GET" => sqlite_sequence < MaxQueue
    /\ th' = [th EXCEPT ![h] = CallCheck([IdleLocals EXCEPT
                                   !.op = "proxy",
                                   !.method = route.method, !.endpoint = route.endpoint,
                                   !.data = route.data,
                                   !.return_queued = route.return_queued])]
    /\ UNCHANGED <<store, health, last_event, now, primary, primary_status_cache,
                   request_queue, sqlite_sequence, data_cache, received>>

\* proxy_request after check_primary_alive: forward, then cache, queue or fail
ProxyDispatch(h) ==
    LET l == th[h] IN
    /\ l.pc = "dispatch"
    /\ \E fw \in ForwardIfAlive(l.alive, l.method, l.endpoint, l.data) :
        LET m == [l EXCEPT !.fwd = fw] IN
        IF fw.success
        THEN /\ data_cache' = IF ShouldCache(l.method)
                              THEN cache_endpoint_data(l.endpoint, fw.response.val)
                              ELSE data_cache
             /\ th' = [th EXCEPT ![h] = Respond(m, 200, fw.response.val)]
             /\ UNCHANGED <<request_queue, sqlite_sequence>>
        ELSE IF ShouldQueue(l.method, l.return_queued)
        THEN /\ request_queue' =
                    add_to_queue(l.method, l.endpoint,
                                 IF Truthy(l.data) THEN json_dumps(l.data.val) ELSE NULL)
             /\ sqlite_sequence' = sequence_after_insert
             /\ th' = [th EXCEPT ![h] = Respond(m, 202, QueuedBody)]
             /\ UNCHANGED data_cache
        ELSE IF l.method = "GET"
        THEN /\ LET cached_data == get_cached_endpoint_data(l.endpoint) IN
                th' = [th EXCEPT ![h] =
                        IF Truthy(cached_data)
                        THEN Respond(m, 200, CachedBody(DictGet(cached_data.val, "data", "{}")))
                        ELSE Respond(m, 503, NoCacheBody)]
             /\ UNCHANGED <<request_queue, sqlite_sequence, data_cache>>
        ELSE /\ th' = [th EXCEPT ![h] = Respond(m, 503, UnavailableBody)]
             /\ UNCHANGED <<request_queue, sqlite_sequence, data_cache>>
    /\ UNCHANGED <<store, health, last_event, now, primary, primary_status_cache,
                   received>>

\* the response is sent, the handler thread is free again
Return(h) ==
    /\ th[h].pc = "done"
    /\ th' = [th EXCEPT ![h] = IdleLocals]
    /\ UNCHANGED <<store, health, last_event, now, primary, primary_status_cache,
                   request_queue, sqlite_sequence, data_cache, received>>

----------------------------------------------------------------------------
(* Server endpoints *)

\* clear_queue: DELETE FROM request_queue
ClearQueue(h) ==
    /\ th[h].pc = "idle"
    /\ request_queue /= {}
    /\ IF store = "ok"
       THEN /\ request_queue' = {}
            /\ th' = [th EXCEPT ![h] =
                        Respond([IdleLocals EXCEPT !.op = "clear"], 200, SuccessBody)]
       ELSE \* sqlite3.OperationalError is not caught: internal_error answers
            /\ request_queue' = request_queue
            /\ th' = [th EXCEPT ![h] =
                        Respond([IdleLocals EXCEPT !.op = "clear"], 500, InternalErrorBody)]
    /\ UNCHANGED <<store, health, last_event, now, primary, primary_status_cache,
                   sqlite_sequence, data_cache, received>>

\* manual_sync: calls sync_requests
ManualSync(h) ==
    /\ th[h].pc = "idle"
    /\ th' = [th EXCEPT ![h] = [IdleLocals EXCEPT !.pc = "sync_list", !.op = "manual"]]
    /\ UNCHANGED <<store, health, last_event, now, primary, primary_status_cache,
                   request_queue, sqlite_sequence, data_cache, received>>

----------------------------------------------------------------------------
(* sync_requests, run by manual_sync and by the worker *)

\* queue_items = get_queue(); an empty list returns (0, 0) at once
SyncList(t) ==
    /\ th[t].pc = "sync_list"
    /\ \E queue_items \in get_queue :
        th' = [th EXCEPT ![t] =
                IF queue_items = <<>>
                THEN AfterSync(th[t])
                ELSE [th[t] EXCEPT !.pc = "sync_loop", !.items = queue_items]]
    /\ UNCHANGED <<store, health, last_event, now, primary, primary_status_cache,
                   request_queue, sqlite_sequence, data_cache, received>>

\* a sync_requests that marks every entry done without a forward
SkipEverything(method) == TRUE

\* a sync_requests that skips no entry
SkipNothing(method) == FALSE

\* sync_requests: the test for the entries that are marked done without a forward
SkipInSync(method) == method = "GET"

\* one iteration of the loop over queue_items: forward the item and mark it; after
\* the last one sync_requests returns
SyncItem(t) ==
    LET l == th[t]
        item == Head(l.items)
        data_dict == IF item.data /= NULL THEN Some(json_loads(item.data)) ELSE None
        Go(m) == IF Tail(l.items) = <<>>
                 THEN AfterSync([m EXCEPT !.items = <<>>])
                 ELSE [m EXCEPT !.items = Tail(l.items)]
    IN
    /\ l.pc = "sync_loop"
    /\ IF SkipInSync(item.method)
       THEN /\ request_queue' = mark_queued_request_done(item.id)
            /\ th' = [th EXCEPT ![t] = Go(l)]
            /\ UNCHANGED received
       ELSE \E fw \in forward_to_primary(item.method, item.endpoint, data_dict) :
            IF fw.success
            THEN /\ request_queue' = mark_queued_request_done(item.id)
                 /\ received' = received \cup {item.id}
                 /\ th' = [th EXCEPT ![t] = Go([l EXCEPT !.synced = l.synced + 1])]
            ELSE /\ request_queue' = mark_queued_request_failed(item.id)
                 /\ th' = [th EXCEPT ![t] = Go([l EXCEPT !.failed = l.failed + 1])]
                 /\ UNCHANGED received
    /\ UNCHANGED <<store, health, last_event, now, primary, primary_status_cache,
                   sqlite_sequence, data_cache>>

----------------------------------------------------------------------------
(* background_sync_worker and refresh_cache *)

\* the ids of the pending PUT entries that were enqueued while the primary was down,
\* once the primary is up
PendingPuts ==
    IF primary = "ok"
    THEN {r.id : r \in {q \in PendingRows : q.method = "PUT" /\ q.down}}
    ELSE {}

\* time.sleep(SYNC_INTERVAL) is over: the cycle starts with check_primary_alive.
\* The history field cycle: PendingPuts as the cycle starts; PrimaryChange empties it,
\* and so does the end of the cycle.
WorkerWake ==
    /\ th[Worker].pc = "sleep"
    /\ now >= th[Worker].wake_at
    /\ th' = [th EXCEPT ![Worker] =
                CallCheck([IdleLocals EXCEPT
                    !.op = "worker",
                    !.cycle = PendingPuts])]
    /\ UNCHANGED <<store, health, last_event, now, primary, primary_status_cache,
                   request_queue, sqlite_sequence, data_cache, received>>

\* refresh_cache: one iteration of the loop over endpoints_to_cache
RefreshItem ==
    LET l == th[Worker]
        endpoint == endpoints_to_cache[l.idx]
    IN
    /\ l.pc = "refresh"
    /\ \E fw \in forward_to_primary("GET", endpoint, None) :
        data_cache' = IF fw.success
                      THEN cache_endpoint_data(endpoint, fw.response.val)
                      ELSE data_cache
    /\ th' = [th EXCEPT ![Worker] =
                IF l.idx = Len(endpoints_to_cache) THEN Sleep ELSE [l EXCEPT !.idx = l.idx + 1]]
    /\ UNCHANGED <<store, health, last_event, now, primary, primary_status_cache,
                   request_queue, sqlite_sequence, received>>

----------------------------------------------------------------------------

\* no other thread is in the middle of a request or of a cycle
Quiet(t) == \A u \in Threads \ {t} : th[u].pc \in {"idle", "sleep"}

(* Spec: every route and endpoint and the worker, a request and a worker   *)
(* cycle one at a time, the clock within the first sleeps of the worker.   *)
Next ==
    \/ Tick(SYNC_INTERVAL)
    \/ \E p \in {"down", "ok", "reject"} : PrimaryChange(p)
    \/ \E t \in Threads : ProbeEnd(t)
    \/ \E t \in Threads : ReportStatus(t)
    \/ \E h \in Handlers : \E route \in Routes : Quiet(h) /\ ProxyRequest(h, route)
    \/ \E h \in Handlers : ProxyDispatch(h)
    \/ \E h \in Handlers : Return(h)
    \/ \E h \in Handlers : Quiet(h) /\ ClearQueue(h)
    \/ \E h \in Handlers : Quiet(h) /\ ManualSync(h)
    \/ \E t \in Threads : SyncList(t)
    \/ \E t \in Threads : SyncItem(t)
    \/ Quiet(Worker) /\ WorkerWake
    \/ RefreshItem

Spec == Init /\ [][Next]_vars

(* ConcSpec: the handler thread and the worker interleave freely; the      *)
(* requests are the PUT and the server endpoints.                          *)
NextConc ==
    \/ Tick(SYNC_INTERVAL)
    \/ \E p \in {"down", "ok", "reject"} : PrimaryChange(p)
    \/ \E t \in Threads : ProbeEnd(t)
    \/ \E t \in Threads : ReportStatus(t)
    \/ \E h \in Handlers : \E route \in {r \in Routes : r.method = "PUT"} :
            ProxyRequest(h, route)
    \/ \E h \in Handlers : ProxyDispatch(h)
    \/ \E h \in Handlers : Return(h)
    \/ \E h \in Handlers : ClearQueue(h)
    \/ \E h \in Handlers : ManualSync(h)
    \/ \E t \in Threads : SyncList(t)
    \/ \E t \in Threads : SyncItem(t)
    \/ WorkerWake
    \/ RefreshItem

ConcSpec == Init /\ [][NextConc]_vars

(* FaultSpec: the handler thread alone, while the SQLite file may be locked *)
NextFault ==
    \/ \E v \in {"ok", "locked"} : StoreChange(v)
    \/ \E p \in {"down", "ok", "reject"} : PrimaryChange(p)
    \/ \E h \in Handlers : ProbeEnd(h)
    \/ \E h \in Handlers : ReportStatus(h)
    \/ \E h \in Handlers : \E route \in Routes : ProxyRequest(h, route)
    \/ \E h \in Handlers : ProxyDispatch(h)
    \/ \E h \in Handlers : Return(h)
    \/ \E h \in Handlers : ClearQueue(h)
    \/ \E h \in Handlers : ManualSync(h)
    \/ \E h \in Handlers : SyncList(h)
    \/ \E h \in Handlers : SyncItem(h)

FaultSpec == Init /\ [][NextFault]_vars

(* TtlSpec: the handler thread alone, reading second after second, so that *)
(* a call of check_primary_alive falls before, on and after cache_ttl.      *)
NextTtl ==
    \/ Tick(1)
    \/ \E p \in {"down", "ok", "reject"} : PrimaryChange(p)
    \/ \E h \in Handlers : ProbeEnd(h)
    \/ \E h \in Handlers : ReportStatus(h)
    \/ \E h \in Handlers : \E route \in {r \in Routes : r.method = "GET"} :
            ProxyRequest(h, route)
    \/ \E h \in Handlers : ProxyDispatch(h)
    \/ \E h \in Handlers : Return(h)

TtlSpec == Init /\ [][NextTtl]_vars

(* QueueSpec: the handler thread alone, every route and the server         *)
(* endpoints, the clock as in Spec, the SQLite file in order.               *)
NextQueue ==
    \/ Tick(SYNC_INTERVAL)
    \/ \E p \in {"down", "ok", "reject"} : PrimaryChange(p)
    \/ \E h \in Handlers : ProbeEnd(h)
    \/ \E h \in Handlers : ReportStatus(h)
    \/ \E h \in Handlers : \E route \in Routes : ProxyRequest(h, route)
    \/ \E h \in Handlers : ProxyDispatch(h)
    \/ \E h \in Handlers : Return(h)
    \/ \E h \in Handlers : ClearQueue(h)
    \/ \E h \in Handlers : ManualSync(h)
    \/ \E h \in Handlers : SyncList(h)
    \/ \E h \in Handlers : SyncItem(h)

QueueSpec == Init /\ [][NextQueue]_vars

(* StraySpec: the process starts on a SQLite file that holds pending        *)
(* entries, among them entries with method GET, which no route of this     *)
(* program enqueues.  manual_sync and the worker drain it, one at a time.  *)
StrayRows(id) ==
    { [id |-> id, method |-> "GET", endpoint |-> "/limits", data |-> NULL,
       created_at |-> StartTime, retry_count |-> 0, status |-> "pending", down |-> FALSE,
       seq |-> id],
      [id |-> id, method |-> "PUT", endpoint |-> "/limits/foo", data |-> json_dumps(ReqLimits),
       created_at |-> StartTime, retry_count |-> 0, status |-> "pending", down |-> FALSE,
       seq |-> id] }

InitStray ==
    /\ now = StartTime
    /\ primary \in {"ok", "down"}
    /\ primary_status_cache = [last_check |-> 0, is_alive |-> FALSE, last_status |-> "None"]
    /\ \E r1 \in StrayRows(1) : \E r2 \in StrayRows(2) :
            request_queue \in {{r1}, {r1, r2}}
    /\ sqlite_sequence = MaxQueue
    /\ data_cache = {}
    /\ th = [t \in Threads |-> IF t = Worker THEN Sleep ELSE IdleLocals]
    /\ store = "ok"
    /\ received = {}
    /\ health = 200
    /\ last_event = "none"

NextStray ==
    \/ Tick(SYNC_INTERVAL)
    \/ \E p \in {"down", "ok", "reject"} : PrimaryChange(p)
    \/ \E t \in Threads : ProbeEnd(t)
    \/ \E t \in Threads : ReportStatus(t)
    \/ \E h \in Handlers : Return(h)
    \/ \E h \in Handlers : Quiet(h) /\ ManualSync(h)
    \/ \E t \in Threads : SyncList(t)
    \/ \E t \in Threads : SyncItem(t)
    \/ Quiet(Worker) /\ WorkerWake
    \/ RefreshItem

StraySpec == InitStray /\ [][NextStray]_vars

(* LiveSpec: as FaultSpec, and the handler thread goes on: a network call   *)
(* ends within REQUEST_TIMEOUT, a statement on the SQLite file within its   *)
(* timeout, and the rest is computation.                                    *)
HandlerStep ==
    \E h \in Handlers :
        \/ ProbeEnd(h) \/ ReportStatus(h) \/ ProxyDispatch(h) \/ Return(h)
        \/ SyncList(h) \/ SyncItem(h)

LiveSpec == Init /\ [][NextFault]_vars /\ WF_vars(HandlerStep)

(* ProbeSpec: as TtlSpec, and the upstream's answer to GET /status varies.  *)
NextProbe ==
    \/ Tick(1)
    \/ \E p \in {"down", "ok", "reject"} : PrimaryChange(p)
    \/ \E c \in HealthCodes : HealthChange(c)
    \/ \E h \in Handlers : ProbeEnd(h)
    \/ \E h \in Handlers : ReportStatus(h)
    \/ \E h \in Handlers : \E route \in {r \in Routes : r.method = "GET"} :
            ProxyRequest(h, route)
    \/ \E h \in Handlers : ProxyDispatch(h)
    \/ \E h \in Handlers : Return(h)

ProbeSpec == Init /\ [][NextProbe]_vars

(* ExpirySpec: the reads and the worker while hours pass, so that cache    *)
(* rows expire.                                                            *)
NextExpiry ==
    \/ \E d \in {SYNC_INTERVAL, CACHE_EXPIRY} : Tick(d)
    \/ \E p \in {"down", "ok", "reject"} : PrimaryChange(p)
    \/ \E t \in Threads : ProbeEnd(t)
    \/ \E t \in Threads : ReportStatus(t)
    \/ \E h \in Handlers : \E route \in {r \in Routes : r.method = "GET"} :
            ProxyRequest(h, route)
    \/ \E h \in Handlers : ProxyDispatch(h)
    \/ \E h \in Handlers : Return(h)
    \/ SyncList(Worker)
    \/ WorkerWake
    \/ RefreshItem

ExpirySpec == Init /\ [][NextExpiry]_vars

----------------------------------------------------------------------------
(* Properties *)

\* the step in which proxy_request, called by handler h, forwards and answers
Dispatched(h) == th[h].pc = "dispatch" /\ th'[h].pc = "done"

\* the step in which an iteration of background_sync_worker ends
CycleEnds == th'[Worker].pc = "sleep" /\ th'[Worker] /= th[Worker]

\* the worker's iteration got past its check_primary_alive and ran sync_requests
Drained == th[Worker].pc \in {"sync_list", "sync_loop"} \/ th[Worker].op = "refresh"

\* the entry of the given id is in the table with status synced
Synced(rows, id) == \E r \in rows : r.id = id /\ r.status = "synced"

\* C1: when the liveness verdict is alive and the primary answers a non-GET request
\* with a status >= 400 and a body, proxy_request answers with that body and that
\* status, and the call leaves the request queue unchanged.
C1RejectionPropagated ==
    [][\A h \in Handlers :
        (Dispatched(h) /\ th[h].alive /\ th[h].method /= "GET"
            /\ th'[h].fwd.kind = "rejected")
        => /\ th'[h].code = th'[h].fwd.status
           /\ th'[h].body = th'[h].fwd.response.val
           /\ request_queue' = request_queue]_vars

\* C2: an entry whose forward failed during a drain (its retry count was incremented)
\* and that is not synced yet is eligible: every get_queue() returns it.
C2FailedStaysEligible ==
    \A r \in request_queue :
        (r.retry_count > 0 /\ r.status /= "synced")
        => \A queue_items \in get_queue :
                \E i \in 1..Len(queue_items) : queue_items[i].id = r.id

\* C3: no queued write is lost: every entry of the queue (none is purged from it) is
\* synced, or is still to be forwarded: pending, or among the items a running drain
\* has yet to forward.
C3NoWriteLost ==
    \A r \in request_queue :
        \/ r.status = "synced"
        \/ r.status = "pending"
        \/ \E t \in Threads : \E i \in 1..Len(th[t].items) : th[t].items[i].id = r.id

C5OneCycleSyncs ==
    [][CycleEnds
        => \A id \in (IF th[Worker].pc = "sleep" THEN PendingPuts ELSE th[Worker].cycle) :
                id \in received' /\ Synced(request_queue', id)]_vars

\* C5, amended: the PUT entries that were enqueued while the primary was down and are
\* pending when an iteration of the worker starts with the primary up (and up
\* throughout) are synced, and the primary has received them, when
\* that iteration ends, if its check_primary_alive reported the primary alive.
C5OneDrainingCycleSyncs ==
    [][(CycleEnds /\ Drained)
        => \A id \in th[Worker].cycle :
                id \in received' /\ Synced(request_queue', id)]_vars

\* C5, its case: the last step of an iteration that had a PUT to sync and synced it
C5Witness ==
    /\ th[Worker].pc = "refresh"
    /\ th[Worker].idx = Len(endpoints_to_cache)
    /\ th[Worker].cycle /= {}
    /\ \A id \in th[Worker].cycle : id \in received /\ Synced(request_queue, id)

\* C6: every list get_queue() can return has the pending entries in strictly ascending
\* order of their ids, the order in which they were enqueued.
C6AscendingIds ==
    \A queue_items \in get_queue :
        \A i, j \in 1..Len(queue_items) : i < j => queue_items[i].id < queue_items[j].id

\* C7: in every reachable state the request queue holds no entry whose method is GET.
C7NoGetQueued == \A r \in request_queue : r.method /= "GET"

\* C7, its case: a GET failed (503) while the queue holds entries
C7Witness ==
    \E h \in Handlers :
        /\ th[h].pc = "done" /\ th[h].method = "GET" /\ th[h].code = 503
        /\ th[h].fwd.kind \in {"none", "transport"}
        /\ request_queue /= {}

\* C8: two probes of check_primary_alive are never started less than CACHE_TTL seconds
\* apart: two threads that wait for the answer to their probes started them at least
\* CACHE_TTL apart.
C8OneProbePerWindow ==
    \A t, u \in Threads :
        (t /= u /\ th[t].pc = "probe" /\ th[u].pc = "probe")
        => \/ th[t].current_time - th[u].current_time >= CACHE_TTL
           \/ th[u].current_time - th[t].current_time >= CACHE_TTL

\* C9: for every stored row, get_cached_endpoint_data of its endpoint is None when
\* expires_at <= now, and is the payload that was stored when expires_at > now.
C9LazyExpiry ==
    \A r \in data_cache :
        LET got == get_cached_endpoint_data(r.endpoint) IN
        IF r.expires_at <= now
        THEN got = None
        ELSE got.some /\ json_dumps(got.val) = r.data

\* C9, its case: a GET fell back to the cache, whose row of that endpoint has expired
C9Witness ==
    \E h \in Handlers :
        /\ th[h].pc = "done" /\ th[h].method = "GET" /\ th[h].code = 503
        /\ \E r \in data_cache : r.endpoint = th[h].endpoint /\ r.expires_at <= now
        /\ \E r \in data_cache : r.expires_at > now

\* C10: with the primary unreachable, a GET of an endpoint that has an unexpired cache
\* row is answered 200 with cached true and the payload of the stored response,
\* whatever that payload is.
C10CachedFallback ==
    [][\A h \in Handlers :
        (Dispatched(h) /\ th[h].method = "GET" /\ primary = "down")
        => \A r \in data_cache :
            (r.endpoint = th[h].endpoint /\ r.expires_at > now)
            => /\ th'[h].code = 200
               /\ <<"cached", "true">> \in th'[h].body
               /\ <<"data", DictGet(json_loads(r.data), "data", "{}")>> \in th'[h].body]_vars

\* C11: with the primary unreachable, a GET of an endpoint that has no cache row, or
\* only an expired one, is answered 503 with an empty data payload, and the call
\* changes neither the queue nor the cache.
C11NoCacheUnavailable ==
    [][\A h \in Handlers :
        (Dispatched(h) /\ th[h].method = "GET" /\ primary = "down"
            /\ \A r \in data_cache : r.endpoint = th[h].endpoint => r.expires_at <= now)
        => /\ th'[h].code = 503
           /\ <<"data", "{}">> \in th'[h].body
           /\ <<"cached", "true">> \notin th'[h].body
           /\ request_queue' = request_queue
           /\ data_cache' = data_cache]_vars

\* C11, its case: a GET answered 503 with the primary down and the endpoint's row
\* expired, after the forward failed under an alive verdict
C11Witness ==
    \E h \in Handlers :
        /\ th[h].pc = "done" /\ th[h].method = "GET" /\ primary = "down"
        /\ th[h].code = 503 /\ th[h].body = NoCacheBody
        /\ th[h].fwd.kind = "transport"
        /\ \E r \in data_cache : r.endpoint = th[h].endpoint /\ r.expires_at <= now

\* C12: a write that proxy_request answers 202 is present in the queue, and a write
\* whose enqueue meets a locked store is answered 500.
C12QueuedMeansStored ==
    [][\A h \in Handlers :
        Dispatched(h)
        => /\ th'[h].code = 202
              => \E r \in request_queue' :
                    /\ r \notin request_queue
                    /\ r.method = th[h].method /\ r.endpoint = th[h].endpoint
                    /\ r.status = "pending"
           /\ (store = "locked" /\ th[h].method /= "GET" /\ ~th'[h].fwd.success)
              => th'[h].code = 500]_vars

\* C13: under a dead verdict proxy_request makes no forward call, whatever the state
\* of the primary is; a non-GET request is answered 202 and is enqueued exactly once.
C13DeadVerdictNoForward ==
    [][\A h \in Handlers :
        (Dispatched(h) /\ ~th[h].alive)
        => /\ th'[h].fwd.kind = "none"
           /\ received' = received
           /\ th[h].method /= "GET"
              => /\ th'[h].code = 202
                 /\ <<"status", "queued">> \in th'[h].body
                 /\ \E r \in request_queue' :
                        /\ r.id \notin {q.id : q \in request_queue}
                        /\ request_queue' = request_queue \cup {r}
                        /\ QueueItem(r) = [id |-> sqlite_sequence', method |-> th[h].method,
                                           endpoint |-> th[h].endpoint,
                                           data |-> IF th[h].data.some
                                                    THEN json_dumps(th[h].data.val)
                                                    ELSE NULL]
                        /\ r.status = "pending"]_vars

\* C13, its case: a PUT was queued under a dead verdict while the primary was not down
C13Witness ==
    \E h \in Handlers :
        /\ th[h].pc = "done" /\ ~th[h].alive /\ th[h].method = "PUT"
        /\ th[h].fwd.kind = "none" /\ th[h].code = 202
        /\ \E r \in PendingRows : r.id = sqlite_sequence /\ r.method = "PUT" /\ ~r.down

\* C14: when the verdict is alive and the forward succeeds, proxy_request answers 200
\* with the response of the primary and leaves the queue unchanged; a GET stores that
\* response in the cache under its endpoint (the other rows stay), any other method
\* leaves the cache unchanged.
C14SuccessPassedThrough ==
    [][\A h \in Handlers :
        (Dispatched(h) /\ th'[h].fwd.success)
        => /\ th[h].alive
           /\ th'[h].code = 200
           /\ th'[h].body = th'[h].fwd.response.val
           /\ request_queue' = request_queue
           /\ IF th[h].method = "GET"
              THEN /\ \E r \in data_cache' :
                        /\ r.endpoint = th[h].endpoint
                        /\ json_loads(r.data) = th'[h].fwd.response.val
                        /\ r.expires_at > now
                   /\ \A r \in data_cache' :
                        r.endpoint = th[h].endpoint \/ r \in data_cache
                   /\ \A r \in data_cache :
                        r.endpoint = th[h].endpoint \/ r \in data_cache'
                   /\ Cardinality({r \in data_cache' : r.endpoint = th[h].endpoint}) = 1
              ELSE data_cache' = data_cache]_vars

\* C14, its case: a forwarded GET replaced the cached row of its endpoint with the
\* response it returns
C14Witness ==
    \E h \in Handlers :
        /\ th[h].pc = "done" /\ th[h].method = "GET" /\ th[h].fwd.success
        /\ th[h].code = 200 /\ th[h].body = BodyLimits
        /\ \E r \in data_cache :
            r.endpoint = th[h].endpoint /\ r.data = json_dumps(BodyLimits) /\ r.cached_at > StartTime

\* C15: the status of an entry that stays in the table changes only from pending to
\* synced, from pending to failed or from failed to pending, and a synced entry keeps
\* its status and its retry count.
C15SyncedIsTerminal ==
    [][\A r \in request_queue : \A q \in request_queue' :
        q.id = r.id
        => /\ r.status = "synced" => (q.status = "synced" /\ q.retry_count = r.retry_count)
           /\ q.status /= r.status
              => <<r.status, q.status>> \in {<<"pending", "synced">>, <<"pending", "failed">>,
                                             <<"failed", "pending">>}]_vars

\* C16: no write is delivered to the primary ahead of an older write that is still
\* pending in the queue: proxy_request forwards a write with success only while no
\* entry that was queued with the primary down is pending.
C16NoOvertaking ==
    [][\A h \in Handlers :
        (Dispatched(h) /\ th[h].method /= "GET" /\ th'[h].fwd.success)
        => {r \in PendingRows : r.down} = {}]_vars

\* what C17 says forward_to_primary returns for the outcome o of its request
ClaimedClass(o, result) ==
    IF o.exc /= "none"
    THEN ~result.success /\ result.response = None
    ELSE IF o.status_code >= 400
    THEN /\ ~result.success
         /\ o.text = "" => result.response = None
         /\ o.text /= "" => result.response.some
         /\ IsJson(o.text) => result.response = Some(json_loads(o.text))
    ELSE result.success /\ result.response = Some(json_loads(o.text))

\* C17: every forward of proxy_request returns what the three-way classification says
\* for the outcome of its request: (False, None) for a transport failure, (False, body
\* if there is one, else None) for a status >= 400, (True, body) for a status < 400;
\* an unsupported method is answered without a request.
C17ThreeWayClassification ==
    [][\A h \in Handlers :
        (Dispatched(h) /\ th[h].alive)
        => /\ \E o \in HttpOutcomes(th[h].method, th[h].endpoint) :
                th'[h].fwd = Classify(o) /\ ClaimedClass(o, th'[h].fwd)
           /\ \A r \in forward_to_primary("PATCH", th[h].endpoint, th[h].data) :
                r.kind = "unsupported" /\ ~r.success]_vars

\* C18: no step removes an entry of request_queue, whatever its status, except a
\* clear_queue that succeeds; after it the table is empty and get_queue_stats
\* reports no entries.
C18OnlyClearRemoves ==
    [][IF \E h \in Handlers : th[h].pc = "idle" /\ th'[h].op = "clear" /\ th'[h].code = 200
       THEN request_queue' = {} /\ get_queue_stats' = {}
       ELSE {r.id : r \in request_queue} \subseteq {r.id : r \in request_queue'}]_vars

\* a queue that held a synced entry has been cleared
C18Witness ==
    \E h \in Handlers :
        /\ th[h].pc = "done" /\ th[h].op = "clear" /\ th[h].code = 200
        /\ request_queue = {} /\ sqlite_sequence > 0
        /\ received /= {}

\* C19: a drain, by the worker or by manual_sync, attempts and marks entries only
\* while the cached liveness verdict is alive.
C19DrainOnlyWhenAlive ==
    [][\A t \in Threads :
        (th[t].pc = "sync_loop" /\ th'[t] /= th[t])
        => primary_status_cache.is_alive]_vars

\* C20: a call of check_primary_alive within cache_ttl of the last probe returns the
\* cached verdict, leaves the cache as it is and sends nothing; a call at or after
\* cache_ttl (the first call included) sends one probe, and the end of the probe sets
\* is_alive and last_check whatever the outcome.  The cache changes at no other step.
C20ProbeOncePerTtl ==
    [][LET cache == primary_status_cache
           fresh == now - cache.last_check < CACHE_TTL
       IN  /\ \A h \in Handlers :
                (th[h].pc = "idle" /\ th'[h].op = "proxy")
                => /\ primary_status_cache' = cache
                   /\ IF fresh
                      THEN th'[h].pc = "dispatch" /\ th'[h].alive = cache.is_alive
                      ELSE th'[h].pc = "probe" /\ th'[h].current_time = now
                   /\ cache.last_check = 0 => th'[h].pc = "probe"
           /\ \A t \in Threads :
                (th[t].pc /= "probe" /\ th'[t].pc = "probe") => ~fresh
           /\ \A t \in Threads :
                (th[t].pc = "probe" /\ th'[t].pc /= "probe")
                => /\ primary_status_cache'.last_check = th[t].current_time
                   /\ primary_status_cache'.is_alive = (primary /= "down")
                   /\ t \in Handlers => th'[t].alive = (primary /= "down")
           /\ (primary_status_cache'.last_check /= cache.last_check
               \/ primary_status_cache'.is_alive /= cache.is_alive)
                => \E t \in Threads : th[t].pc = "probe" /\ th'[t].pc /= "probe"]_vars

\* after an alive verdict under which a read was cached, a later call of
\* check_primary_alive has probed again, and the dead outcome has replaced the verdict
C20Witness ==
    \E h \in Handlers :
        /\ th[h].pc = "dispatch" /\ ~th[h].alive
        /\ data_cache /= {}
        /\ primary_status_cache.last_check >= StartTime + CACHE_TTL
        /\ ~primary_status_cache.is_alive

\* C21: the verdict of a probe is alive exactly when the upstream answered with a 2xx
\* status; any other status and a transport failure give not alive, and the caller goes
\* on with the verdict.
C21AliveIffSuccessStatus ==
    [][\A t \in Threads :
        (th[t].pc = "probe" /\ th'[t].pc /= "probe")
        => /\ primary_status_cache'.is_alive
                = (primary /= "down" /\ health >= 200 /\ health < 300)
           /\ th'[t].pc \in {"report", "dispatch", "sync_list", "refresh", "sleep"}]_vars

\* C22: data_cache holds at most one row per endpoint; a step that writes the cache
\* replaces the row of one endpoint by a row with the new payload and an expiry one
\* hour ahead, leaves the rows of the other endpoints as they are, and
\* get_cached_endpoint_data then returns the new payload.
C22OneEntryPerKey ==
    [][/\ \A r1, r2 \in data_cache' : r1.endpoint = r2.endpoint => r1 = r2
       /\ data_cache' /= data_cache
            => \E row \in data_cache' : \E doc \in JsonDocs :
                /\ row.data = json_dumps(doc)
                /\ row.cached_at = now /\ row.expires_at = now + CACHE_EXPIRY
                /\ {r \in data_cache' : r.endpoint /= row.endpoint}
                     = {r \in data_cache : r.endpoint /= row.endpoint}
                /\ get_cached_endpoint_data(row.endpoint)' = Some(doc)
                /\ \A h \in Handlers :
                     Dispatched(h) => row.endpoint = th[h].endpoint
                                      /\ Some(doc) = th'[h].fwd.response]_vars

\* a read has replaced the row of /limits that an earlier refresh_cache wrote together
\* with the row of /status
C22Witness ==
    \E h \in Handlers : \E r1, r2 \in data_cache :
        /\ th[h].pc = "done" /\ th[h].method = "GET" /\ th[h].fwd.success
        /\ r1.endpoint = "/limits" /\ r2.endpoint = "/status"
        /\ r1.cached_at > r2.cached_at
        /\ r1.data = json_dumps(th[h].fwd.response.val)

\* C28: two consecutive status-change events are never of the same kind: every event
\* that check_primary_alive prints differs from the one printed before it, whichever
\* threads call it.
C28EventsAlternate ==
    [][\A t \in Threads :
        (th[t].pc = "report" /\ th'[t].pc /= "report") => last_event' /= last_event]_vars

\* how far a call of proxy_request has come
ProxyRank(pc) ==
    CASE pc = "probe" -> 1
      [] pc = "report" -> 2
      [] pc = "dispatch" -> 3
      [] pc = "done" -> 4
      [] OTHER -> 0

\* C23: a call of proxy_request only moves forward, from the probe (if one is sent) to
\* the dispatch with its forward (if one is sent) to the response, so it sends at most
\* one probe and at most one forward and repeats neither; and every call reaches its
\* response.
C23CallTerminates ==
    /\ [][\A h \in Handlers :
            /\ (th[h].op = "proxy" /\ th'[h] /= th[h])
                => \/ th[h].pc = "done" /\ th'[h].pc = "idle"
                   \/ th'[h].op = "proxy" /\ ProxyRank(th'[h].pc) > ProxyRank(th[h].pc)
            /\ (th'[h].op = "proxy" /\ th'[h].fwd /= th[h].fwd)
                => th[h].pc = "dispatch" /\ th[h].fwd = NoForward]_vars
    /\ \A h \in Handlers : (th[h].op = "proxy") ~> (th[h].pc = "done")

\* a call whose one probe found the primary alive and whose one forward failed has been
\* answered
C23Witness ==
    \E h \in Handlers :
        /\ th[h].pc = "done" /\ th[h].op = "proxy"
        /\ th[h].alive /\ th[h].fwd.kind = "transport"
        /\ th[h].code = 202
        /\ primary_status_cache.last_check = now

\* C24: the id of an entry is given at its insertion and is larger than every id given
\* before, also those of entries that clear_queue has removed: a new entry has the id
\* after the largest id ever given, no two entries have the same id, and the largest
\* id ever given never decreases.
C24IdsNeverReused ==
    [][/\ \A r \in request_queue' :
            r.id \notin {q.id : q \in request_queue}
            => r.id = sqlite_sequence + 1 /\ sqlite_sequence' = r.id
       /\ \A r1, r2 \in request_queue' : r1.id = r2.id => r1 = r2
       /\ \A r \in request_queue' : r.id >= 1 /\ r.id <= sqlite_sequence'
       /\ sqlite_sequence' >= sqlite_sequence]_vars

\* after clear_queue removed entry 1, a write has been queued as entry 2
C24Witness ==
    \E h \in Handlers :
        /\ th[h].pc = "done" /\ th[h].op = "proxy" /\ th[h].code = 202
        /\ {r.id : r \in request_queue} = {2}

\* the count that stats gives for a status, 0 if the status does not occur in it
StatCount(stats, s) ==
    IF \E p \in stats : p[1] = s THEN (CHOOSE p \in stats : p[1] = s)[2] ELSE 0

StatTotal(stats) ==
    StatCount(stats, "pending") + StatCount(stats, "synced") + StatCount(stats, "failed")

\* C25: get_queue_stats has one count for each status that occurs, the number of
\* entries with that status, and the counts sum to the number of entries; the step that
\* enqueues raises the pending count by 1 and no other, and a step of a drain that
\* marks an entry moves 1 from pending to synced or to failed and keeps the total.
C25StatsCountByStatus ==
    [][LET before == get_queue_stats
           after == get_queue_stats'
       IN  /\ \A p \in after :
                p[2] >= 1 /\ p[2] = Cardinality({r \in request_queue' : r.status = p[1]})
           /\ \A r \in request_queue' : \E p \in after : p[1] = r.status
           /\ \A p, q \in after : p[1] = q[1] => p = q
           /\ StatTotal(after) = Cardinality(request_queue')
           /\ \A h \in Handlers :
                (Dispatched(h) /\ th'[h].code = 202)
                => /\ StatCount(after, "pending") = StatCount(before, "pending") + 1
                   /\ StatCount(after, "synced") = StatCount(before, "synced")
                   /\ StatCount(after, "failed") = StatCount(before, "failed")
           /\ \A t \in Threads :
                (th[t].pc = "sync_loop" /\ th'[t].items /= th[t].items)
                => /\ StatTotal(after) = StatTotal(before)
                   /\ StatCount(after, "pending") = StatCount(before, "pending") - 1
                   /\ \/ StatCount(after, "synced") = StatCount(before, "synced") + 1
                         /\ StatCount(after, "failed") = StatCount(before, "failed")
                      \/ StatCount(after, "failed") = StatCount(before, "failed") + 1
                         /\ StatCount(after, "synced") = StatCount(before, "synced")]_vars

\* a drain has marked one entry synced and one failed
C25Witness ==
    /\ get_queue_stats = { <<"synced", 1>>, <<"failed", 1>> }
    /\ \E t \in Threads : th[t].synced = 1 /\ th[t].failed = 1

\* the row of the given id
RowOf(rows, id) == CHOOSE r \in rows : r.id = id

\* C26: sync_requests lists every pending entry once, in the order of created_at, and
\* each step of its loop attempts the first item not yet attempted and goes on with the
\* rest, whatever the outcome and without a look at the liveness verdict: the entry is
\* marked synced when the primary accepted the forward, and failed with retry_count + 1
\* when the forward failed or was rejected; no other entry changes.
C26DrainAttemptsEachOnce ==
    [][\A t \in Threads :
        /\ (th[t].pc = "sync_list" /\ th'[t].pc = "sync_loop")
            => LET items == th'[t].items IN
               /\ {items[i].id : i \in 1..Len(items)} = {r.id : r \in PendingRows}
               /\ Len(items) = Cardinality(PendingRows)
               /\ \A i, j \in 1..Len(items) :
                    i < j => RowOf(request_queue, items[i].id).created_at
                                <= RowOf(request_queue, items[j].id).created_at
        /\ (th[t].pc = "sync_loop" /\ (th'[t].pc /= "sync_loop" \/ th'[t].items /= th[t].items))
            => LET item == Head(th[t].items)
                   rest == Tail(th[t].items)
                   old == RowOf(request_queue, item.id)
               IN
               /\ IF rest = <<>> THEN th'[t].pc /= "sync_loop"
                                 ELSE th'[t].pc = "sync_loop" /\ th'[t].items = rest
               /\ primary_status_cache' = primary_status_cache
               /\ request_queue' \ {RowOf(request_queue', item.id)} = request_queue \ {old}
               /\ IF primary = "ok"
                  THEN /\ RowOf(request_queue', item.id) = [old EXCEPT !.status = "synced"]
                       /\ item.id \in received'
                  ELSE /\ RowOf(request_queue', item.id) =
                            [old EXCEPT !.status = "failed", !.retry_count = old.retry_count + 1]
                       /\ received' = received]_vars

\* the first entry of a run has failed and the run goes on with the entry listed after it
C26Witness ==
    \E t \in Threads :
        /\ th[t].pc = "sync_loop" /\ th[t].failed = 1 /\ Len(th[t].items) = 1
        /\ \E r \in request_queue :
            /\ r.status = "failed" /\ r.retry_count = 1
            /\ r.created_at < RowOf(request_queue, th[t].items[1].id).created_at

\* the columns of a row that no mark may change
Frame(r) == [id |-> r.id, method |-> r.method, endpoint |-> r.endpoint, data |-> r.data,
             created_at |-> r.created_at]

\* C27: on every table the program reaches, mark_queued_request_done and
\* mark_queued_request_failed of an id change at most status and retry_count of the
\* entry with that id, keep its method, endpoint, data and created_at and every other
\* entry, and change nothing when no entry has the id.
C27MarksKeepTheRest ==
    \A id \in 1..(MaxQueue + 1) :
        \A marked \in {mark_queued_request_done(id), mark_queued_request_failed(id)} :
            IF \E r \in request_queue : r.id = id
            THEN /\ {r \in marked : r.id /= id} = {r \in request_queue : r.id /= id}
                 /\ Cardinality({r \in marked : r.id = id}) = 1
                 /\ Frame(RowOf(marked, id)) = Frame(RowOf(request_queue, id))
            ELSE marked = request_queue

\* a drain has marked the first of two entries synced; the other is as it was enqueued
C27Witness ==
    \E t \in Threads :
        /\ th[t].pc = "sync_loop" /\ th[t].synced = 1
        /\ \E r1, r2 \in request_queue :
            /\ r1.status = "synced" /\ r1.id \in received
            /\ r2.status = "pending" /\ r2.retry_count = 0
            /\ th[t].items = << QueueItem(r2) >>

\* C29: when a drain of the worker ends, whatever it found, refresh_cache sends a GET
\* for each endpoint of endpoints_to_cache in turn; a GET that succeeds replaces the
\* row of its endpoint and a GET that fails leaves data_cache as it is.
C29RefreshAfterEveryDrain ==
    [][LET l == th[Worker]
           m == th'[Worker]
       IN  /\ (l.pc \in {"sync_list", "sync_loop"} /\ m.pc \notin {"sync_list", "sync_loop"})
                => m.op = "refresh" /\ m.pc \in {"probe", "refresh"}
           /\ (l.op = "refresh" /\ l.pc \in {"probe", "report"}
               /\ m.pc \notin {"probe", "report"})
                => m.pc = "refresh" /\ m.idx = 1
           /\ (l.pc = "refresh" /\ m /= l /\ m.cycle = l.cycle)
                => /\ IF l.idx < Len(endpoints_to_cache)
                      THEN m.pc = "refresh" /\ m.idx = l.idx + 1
                      ELSE m.pc = "sleep"
                   /\ IF primary = "ok"
                      THEN \E r \in data_cache' :
                            /\ r.endpoint = endpoints_to_cache[l.idx] /\ r.cached_at = now
                            /\ {q \in data_cache' : q.endpoint /= r.endpoint}
                                 = {q \in data_cache : q.endpoint /= r.endpoint}
                      ELSE data_cache' = data_cache]_vars

\* C30: the step of a drain on a pending entry with method GET marks the entry synced
\* whatever the state of the primary, sends nothing to the primary, and counts the
\* entry neither as synced nor as failed.
C30StrayGetSkipped ==
    [][\A t \in Threads :
        (th[t].pc = "sync_loop" /\ Head(th[t].items).method = "GET"
         /\ (th'[t].pc /= "sync_loop" \/ th'[t].items /= th[t].items))
        => LET item == Head(th[t].items)
               old == RowOf(request_queue, item.id)
           IN  /\ RowOf(request_queue', item.id) = [old EXCEPT !.status = "synced"]
               /\ request_queue' \ {RowOf(request_queue', item.id)} = request_queue \ {old}
               /\ received' = received
               /\ th'[t].pc \in {"sync_loop", "done"}
                    => th'[t].synced = th[t].synced /\ th'[t].failed = th[t].failed]_vars

\* manual_sync has returned (0, 0) from a run that marked a GET entry synced while the
\* primary was down
C30Witness ==
    \E h \in Handlers :
        /\ th[h].pc = "done" /\ th[h].op = "manual"
        /\ th[h].synced = 0 /\ th[h].failed = 0
        /\ \E r \in request_queue : r.method = "GET" /\ r.status = "synced"
        /\ primary = "down" /\ received = {}

\* C31: an entry that the primary has accepted is not delivered again: no step of a
\* drain, of the worker or of manual_sync, forwards with success an entry whose forward
\* the primary has accepted before.
C31DeliveredAtMostOnce ==
    [][\A t \in Threads :
        (th[t].pc = "sync_loop" /\ (th'[t].pc /= "sync_loop" \/ th'[t].items /= th[t].items)
         /\ Head(th[t].items).method /= "GET" /\ primary = "ok")
        => Head(th[t].items).id \notin received]_vars

\* C32: a drain acts on the entries it listed and on no other: the items of a listing
\* are the pending entries of that moment, named by the number of their INSERT, and a
\* step of the loop leaves every entry of another INSERT as it is; when clear_queue has
\* removed the entry of the item, the mark changes nothing, whatever was enqueued since.
C32StaleMarksHitNoRow ==
    [][\A t \in Threads :
        /\ (th[t].pc = "sync_list" /\ th'[t].pc = "sync_loop")
            => {th'[t].items[i].id : i \in 1..Len(th'[t].items)}
                    = {r.seq : r \in PendingRows}
        /\ (th[t].pc = "sync_loop"
            /\ (th'[t].pc /= "sync_loop" \/ th'[t].items /= th[t].items))
            => LET item == Head(th[t].items)
               IN  /\ \A r \in request_queue : r.seq /= item.id => r \in request_queue'
                   /\ \A r \in request_queue' : r.seq /= item.id => r \in request_queue
                   /\ (\A r \in request_queue : r.seq /= item.id)
                        => request_queue' = request_queue]_vars

\* the worker's drain holds entry 1 of its listing, clear_queue has removed entry 1 since
\* and entry 2 was enqueued after that: the drain's mark for id 1 comes next
C32Witness ==
    /\ th[Worker].pc = "sync_loop"
    /\ th[Worker].items /= <<>>
    /\ Head(th[Worker].items).id = 1
    /\ request_queue /= {}
    /\ \A r \in request_queue : r.id = 2 /\ r.status = "pending" /\ r.retry_count = 0

\* a step in which thread t makes a forward of the entry with this id that fails
FailedAttempt(t, id) ==
    /\ th[t].pc = "sync_loop"
    /\ th'[t] /= th[t]
    /\ Head(th[t].items).id = id
    /\ ~SkipInSync(Head(th[t].items).method)
    /\ primary /= "ok"

\* C33: retry_count counts the failed forwards of its entry: it is 0 when the entry is
\* inserted, a step in which a drain's forward of the entry fails adds exactly one, and
\* no other step changes it; so it is never negative and never decreases.
C33RetryCountsFailures ==
    [][\A new \in request_queue' :
        /\ new.retry_count >= 0
        /\ IF \E r \in request_queue : r.id = new.id
           THEN LET old == RowOf(request_queue, new.id)
                IN  /\ old.retry_count >= 0
                    /\ new.retry_count >= old.retry_count
                    /\ new.retry_count =
                            IF \E t \in Threads : FailedAttempt(t, new.id)
                            THEN old.retry_count + 1
                            ELSE old.retry_count
           ELSE new.retry_count = 0]_vars

\* two drains that listed the same entry have each made a forward of it that failed
C33Witness ==
    \E r \in request_queue : r.retry_count = 2 /\ r.status = "failed"

\* C34: no step of proxy_request for a non-GET request changes data_cache, whatever
\* the outcome, and no step of proxy_request for a GET request changes request_queue or
\* its id counter; the step in which the forward fails on the transport leaves
\* _primary_status_cache as it is.
C34StoresKeptApart ==
    [][\A h \in Handlers :
        (th'[h].op = "proxy" /\ th'[h] /= th[h])
        => /\ th'[h].method /= "GET" => data_cache' = data_cache
           /\ th'[h].method = "GET"
                => (request_queue' = request_queue /\ sqlite_sequence' = sqlite_sequence)
           /\ (Dispatched(h) /\ th'[h].fwd.kind = "transport")
                => primary_status_cache' = primary_status_cache]_vars

\* a POST /limits whose forward failed on the transport was queued: the cache still
\* holds the entry of /limits that a GET wrote, and the liveness record still says
\* alive, checked before the failure
C34Witness ==
    \E h \in Handlers :
        /\ th[h].pc = "done"
        /\ th[h].op = "proxy"
        /\ th[h].method = "POST"
        /\ th[h].fwd.kind = "transport"
        /\ th[h].code = 202
        /\ primary_status_cache.is_alive
        /\ primary_status_cache.last_check < now
        /\ \E c \in data_cache : c.endpoint = th[h].endpoint
        /\ \E r \in request_queue : r.method = "POST" /\ r.status = "pending"

\* the number of the items that are not GET entries
NonGetCount(items) == Cardinality({i \in 1..Len(items) : items[i].method /= "GET"})

\* C35: sync_requests counts what it marks.  The run starts from (0, 0) with the list of
\* the pending entries; each step of the loop on a non-GET item adds one to synced when
\* the forward succeeded and the entry is marked synced, one to failed when it is marked
\* failed, and a GET item adds nothing, so that synced + failed plus the non-GET items
\* still to do stays the number of non-GET entries listed, and is synced + failed in the
\* pair manual_sync gets back.  With an empty list the pair is (0, 0) and no forward is
\* made.
C35CountsWhatItMarks ==
    [][\A t \in Threads :
        /\ (th[t].pc = "sync_list" /\ th'[t].pc = "sync_loop")
            => /\ th'[t].items \in get_queue
               /\ th'[t].synced = 0 /\ th'[t].failed = 0
        /\ (th[t].pc = "sync_list" /\ th'[t] /= th[t] /\ PendingRows = {})
            => /\ received' = received /\ request_queue' = request_queue
               /\ th[t].op = "manual"
                    => (th'[t].pc = "done" /\ th'[t].synced = 0 /\ th'[t].failed = 0)
        /\ (th[t].pc = "sync_loop" /\ th'[t] /= th[t]
            /\ (th'[t].pc = "sync_loop" \/ th[t].op = "manual"))
            => LET item == Head(th[t].items)
                   old == RowOf(request_queue, item.id)
                   new == RowOf(request_queue', item.id)
               IN  /\ th'[t].synced + th'[t].failed + NonGetCount(th'[t].items)
                        = th[t].synced + th[t].failed + NonGetCount(th[t].items)
                   /\ th'[t].synced - th[t].synced =
                        IF item.method /= "GET" /\ primary = "ok" THEN 1 ELSE 0
                   /\ th'[t].failed - th[t].failed =
                        IF item.method /= "GET" /\ primary /= "ok" THEN 1 ELSE 0
                   /\ th'[t].synced > th[t].synced
                        => (new.status = "synced" /\ item.id \in received')
                   /\ th'[t].failed > th[t].failed
                        => (new.status = "failed"
                            /\ new.retry_count = old.retry_count + 1)
                   /\ th'[t].pc /= "sync_loop"
                        => (th'[t].pc = "done" /\ th'[t].items = <<>>)]_vars

\* manual_sync got (0, 1) back from a run that listed a GET entry and a PUT entry: the
\* GET entry is marked synced without a forward and is not counted
C35Witness ==
    \E h \in Handlers :
        /\ th[h].pc = "done" /\ th[h].op = "manual" /\ th[h].code = 200
        /\ th[h].synced = 0 /\ th[h].failed = 1
        /\ received = {}
        /\ \E r1, r2 \in request_queue :
            /\ r1.method = "GET" /\ r1.status = "synced" /\ r1.retry_count = 0
            /\ r2.method = "PUT" /\ r2.status = "failed" /\ r2.retry_count = 1

====
